---- MODULE Spec2Model ----
(***************************************************************************)
(* Submission validation and grading engine of python-skill-builder/app.py: *)
(* validate_source, run_user_and_tests, capture_execution_results and the  *)
(* /api/grade handler grade_submission.                                     *)
(***************************************************************************)
EXTENDS Integers, Sequences, FiniteSets, TLC

(***************************************************************************)
(* Bounds of the explored input space.                                      *)
(***************************************************************************)
\* deepest nesting of a statement inside function definitions
MaxDepth == 2
\* most aliases in one import statement
MaxNames == 2
\* most statements in a module body
MaxStmts == 2
\* largest elapsed time, in ms, the clock reports
MaxElapsedMs == 1
\* most grading requests one server process receives in a row
MaxRequests == 2

(***************************************************************************)
(* Validation policy (app.py:31-42).                                        *)
(***************************************************************************)
\* variant: the asynchronous context manager is left out of the tuple
DISALLOWED_NODES_NoAsyncWith == {"Global", "Nonlocal", "With"}

DISALLOWED_NODES == {"Global", "Nonlocal", "With", "AsyncWith"}

\* module -> permitted symbols; all = TRUE stands for the value None
ALLOWED_IMPORTS ==
  [functools |-> [all |-> FALSE, names |-> <<"wraps">>],
   time      |-> [all |-> FALSE, names |-> <<"sleep", "time", "perf_counter">>],
   numpy     |-> [all |-> TRUE,  names |-> <<>>]]

\* the keys of the base capability table
SAFE_BUILTINS ==
  {"len", "range", "sum", "min", "max", "abs", "enumerate", "zip", "sorted",
   "all", "any", "map", "filter", "list", "dict", "set", "tuple", "str",
   "int", "float", "bool", "print", "isinstance", "type", "repr", "getattr",
   "setattr", "hasattr", "Exception", "ValueError", "TypeError", "KeyError",
   "IndexError", "AttributeError", "NameError", "ImportError",
   "__build_class__", "property", "classmethod", "staticmethod", "super"}

\* the bindings of these three names in the module's namespace: every use
\* of a name in validate_source and run_user_and_tests reads it there
VARIABLE module_globals

\* the namespace once the module is loaded
ModuleGlobals ==
  [DISALLOWED_NODES |-> DISALLOWED_NODES,
   ALLOWED_IMPORTS  |-> ALLOWED_IMPORTS,
   SAFE_BUILTINS    |-> SAFE_BUILTINS]

\* what a submission does to the namespace it reaches through
\* __import__.__globals__ (the loader is a function of this module)
NoTamper == "none"
Tampers == {"allow_os", "leak_builtin", "clear_disallowed"}
Tamper(g, how) ==
  IF how = "allow_os"
    THEN [g EXCEPT !.ALLOWED_IMPORTS =
            [m \in {"os"} |-> [all |-> TRUE, names |-> <<>>]] @@ @]
  ELSE IF how = "leak_builtin"
    THEN [g EXCEPT !.SAFE_BUILTINS = @ \cup {"leak"}]
  ELSE IF how = "clear_disallowed"
    THEN [g EXCEPT !.DISALLOWED_NODES = {}]
  ELSE g

\* `x in ALLOWED_IMPORTS`: membership among the keys of the dict
AllowedKeys == DOMAIN module_globals.ALLOWED_IMPORTS

\* `x in seq`
InSeq(x, s) == \E i \in 1..Len(s) : s[i] = x

(***************************************************************************)
(* Syntax trees.  A node carries its class name, the module of an          *)
(* ImportFrom (the string "None" for `from . import x`), the alias names   *)
(* of an Import/ImportFrom, and its child statements.                       *)
(***************************************************************************)
Node(kind, module, names, body) ==
  [kind |-> kind, module |-> module, names |-> names, body |-> body]

SeqsUpTo(S, n) == UNION {[1..k -> S] : k \in 1..n}

\* names the sampled import statements mention
ImportModules == {"functools", "os"}
FromModules   == {"functools", "numpy", "os", "None"}
FromSymbols   == {"wraps", "partial"}

Leaves ==
  {Node("Expr", "", <<>>, <<>>)}
  \cup {Node(k, "", <<>>, <<>>) : k \in {"Global", "Nonlocal", "With", "AsyncWith"}}
  \cup {Node("Import", "", ns, <<>>) : ns \in SeqsUpTo(ImportModules, MaxNames)}
  \cup {Node("ImportFrom", m, ns, <<>>) :
          m \in FromModules, ns \in SeqsUpTo(FromSymbols, MaxNames)}

\* a statement nested inside d function definitions
RECURSIVE Nest(_, _)
Nest(d, leaf) ==
  IF d = 0 THEN leaf
  ELSE Node("FunctionDef", "", <<>>, <<Nest(d - 1, leaf)>>)

Stmts == {Nest(d, l) : d \in 0..MaxDepth, l \in Leaves}

\* statements that follow the leading statement of a sampled body
Probes ==
  {Nest(d, l) : d \in 0..MaxDepth,
                l \in {Node("Expr", "", <<>>, <<>>),
                       Node("With", "", <<>>, <<>>),
                       Node("Import", "", <<"os">>, <<>>),
                       Node("ImportFrom", "functools", <<"partial">>, <<>>)}}

Bodies ==
  {<<s>> \o t : s \in Stmts, t \in {<<>>} \cup SeqsUpTo(Probes, MaxStmts - 1)}

\* source text: either text ast.parse rejects, or the tree it parses to
SyntaxErrorSource == [parses |-> FALSE, tree |-> Node("Module", "", <<>>, <<>>)]
ParsedSource(body) == [parses |-> TRUE, tree |-> Node("Module", "", <<>>, body)]

Sources == {SyntaxErrorSource} \cup {ParsedSource(b) : b \in Bodies}

(***************************************************************************)
(* validate_source (app.py:61-96).                                          *)
(***************************************************************************)
\* ast.walk: breadth-first, a node before its children
RECURSIVE Walk(_)
Walk(todo) ==
  IF todo = <<>> THEN <<>>
  ELSE <<Head(todo)>> \o Walk(Tail(todo) \o Head(todo).body)

\* the ValueError messages, as format and argument
Msg(fmt, arg) == [fmt |-> fmt, arg |-> arg]
MsgSyntax      == "SyntaxError: {e}"
MsgDisallowed  == "Use of disallowed language feature in this exercise: {cls}"
MsgImport      == "Import of '{module}' is not allowed."
MsgImportFrom  == "Import from '{module}' is not allowed."
MsgSymbol      == "Import of '{name}' from '{module}' is not allowed."
NoMsg == Msg("", "")

\* a loop that raises at the first element failing its test: the index of
\* the first FALSE among the tests' results, 0 if none
FirstFalse(ok) ==
  IF \E i \in 1..Len(ok) : ~ok[i]
  THEN CHOOSE i \in 1..Len(ok) : ~ok[i] /\ \A j \in 1..(i - 1) : ok[j]
  ELSE 0

\* variant: only the `from m import ...` form is checked
CheckNode_NoPlainImport(node) ==
  IF node.kind \in module_globals.DISALLOWED_NODES
    THEN Msg(MsgDisallowed, node.kind)
  ELSE IF node.kind = "ImportFrom"
    THEN IF node.module \notin AllowedKeys
           THEN Msg(MsgImportFrom, node.module)
         ELSE LET allowed_names == module_globals.ALLOWED_IMPORTS[node.module]
                  bad == FirstFalse([i \in 1..Len(node.names) |->
                              InSeq(node.names[i], allowed_names.names)])
              IN  IF ~allowed_names.all /\ bad /= 0
                    THEN Msg(MsgSymbol, node.names[bad])
                    ELSE NoMsg
  ELSE NoMsg

\* variant: only the first alias of a from-import is checked
CheckNode_FirstNameOnly(node) ==
  IF node.kind \in module_globals.DISALLOWED_NODES
    THEN Msg(MsgDisallowed, node.kind)
  ELSE IF node.kind = "Import"
    THEN LET bad == FirstFalse([i \in 1..Len(node.names) |->
                                  node.names[i] \in AllowedKeys])
         IN  IF bad /= 0 THEN Msg(MsgImport, node.names[bad]) ELSE NoMsg
  ELSE IF node.kind = "ImportFrom"
    THEN IF node.module \notin AllowedKeys
           THEN Msg(MsgImportFrom, node.module)
         ELSE LET allowed_names == module_globals.ALLOWED_IMPORTS[node.module]
              IN  IF ~allowed_names.all
                     /\ ~InSeq(node.names[1], allowed_names.names)
                    THEN Msg(MsgSymbol, node.names[1])
                    ELSE NoMsg
  ELSE NoMsg

\* body of the loop over the nodes: the message raised at this node, or NoMsg
CheckNode(node) ==
  IF node.kind \in module_globals.DISALLOWED_NODES
    THEN Msg(MsgDisallowed, node.kind)
  ELSE IF node.kind = "Import"
    THEN LET bad == FirstFalse([i \in 1..Len(node.names) |->
                                  node.names[i] \in AllowedKeys])
         IN  IF bad /= 0 THEN Msg(MsgImport, node.names[bad]) ELSE NoMsg
  ELSE IF node.kind = "ImportFrom"
    THEN IF node.module \notin AllowedKeys
           THEN Msg(MsgImportFrom, node.module)
         ELSE LET allowed_names == module_globals.ALLOWED_IMPORTS[node.module]
                  bad == FirstFalse([i \in 1..Len(node.names) |->
                              InSeq(node.names[i], allowed_names.names)])
              IN  IF ~allowed_names.all /\ bad /= 0
                    THEN Msg(MsgSymbol, node.names[bad])
                    ELSE NoMsg
  ELSE NoMsg

\* variant: the parse failure is swallowed instead of re-raised
validate_source_IgnoresSyntaxError(code) ==
  IF ~code.parses THEN NoMsg
  ELSE LET nodes == Walk(<<code.tree>>)
           bad   == FirstFalse([i \in 1..Len(nodes) |->
                                  CheckNode(nodes[i]) = NoMsg])
       IN  IF bad /= 0 THEN CheckNode(nodes[bad]) ELSE NoMsg

\* the message of the ValueError validate_source raises, NoMsg when it returns
validate_source(code) ==
  IF ~code.parses THEN Msg(MsgSyntax, "invalid syntax")
  ELSE LET nodes == Walk(<<code.tree>>)
           bad   == FirstFalse([i \in 1..Len(nodes) |->
                                  CheckNode(nodes[i]) = NoMsg])
       IN  IF bad /= 0 THEN CheckNode(nodes[bad]) ELSE NoMsg

(***************************************************************************)
(* What running a unit does.  The text of a unit fixes its behaviour, so   *)
(* a submission is its source (above) together with what executing it      *)
(* does: the dynamic calls of __import__ it makes, the exception it raises *)
(* (if any) and the names it binds.                                         *)
(***************************************************************************)
NoFault == "none"
\* exception classes a unit can raise; all but BaseException derive from
\* Exception, FileNotFoundError also from OSError
FaultTypes == {"ValueError", "FileNotFoundError", "BaseException"}
IsException(type) == type /= "BaseException"

LoadRequest(name, fromlist) == [name |-> name, fromlist |-> fromlist]

\* dynamic calls __import__(name, None, None, fromlist) of a submission
DynamicLoads ==
  {<<>>} \cup
  {<<LoadRequest(n, f)>> : n \in {"functools", "os"},
                           f \in {<<>>, <<"wraps">>, <<"time">>}}

\* objects a submission binds: callable(obj), isinstance(obj, type), the
\* attributes dir(obj) lists (name, callable, whether reading it raises),
\* type(obj).__name__, len(str(obj)) and whether str(obj) raises
Attr(name, isCallable, raises) ==
  [name |-> name, callable |-> isCallable, raises |-> raises]
Obj(isCallable, isType, attrs, typeName, strLen, strRaises) ==
  [callable |-> isCallable, isType |-> isType, attrs |-> attrs,
   typeName |-> typeName, strLen |-> strLen, strRaises |-> strRaises]

FunctionObj == Obj(TRUE, FALSE, <<>>, "function", 30, FALSE)
\* a class with a classmethod build, an inherited method inh, a data
\* attribute limit, a method m and a staticmethod util, in dir() order
ClassObj ==
  Obj(TRUE, TRUE,
      <<Attr("__init__", TRUE, FALSE), Attr("_helper", TRUE, FALSE),
        Attr("build", TRUE, FALSE), Attr("inh", TRUE, FALSE),
        Attr("limit", FALSE, FALSE), Attr("m", TRUE, FALSE),
        Attr("util", TRUE, FALSE)>>,
      "type", 20, FALSE)
\* a class one of whose public attributes raises when read through the class
FailingAttrClassObj ==
  Obj(TRUE, TRUE, <<Attr("m", TRUE, FALSE), Attr("p", FALSE, TRUE)>>,
      "type", 20, FALSE)
IntObj == Obj(FALSE, FALSE, <<>>, "int", 2, FALSE)
LongStrObj == Obj(FALSE, FALSE, <<>>, "str", 120, FALSE)
\* strings of 99 and of 100 characters
NearBoundaryStrObj == Obj(FALSE, FALSE, <<>>, "str", 99, FALSE)
BoundaryStrObj == Obj(FALSE, FALSE, <<>>, "str", 100, FALSE)
UnprintableObj == Obj(FALSE, FALSE, <<>>, "Weird", 0, TRUE)

\* sampled sets of bindings (name -> object) a submission leaves behind
NoBindings == [n \in {} |-> IntObj]
Bindings ==
  {NoBindings,
   [f |-> FunctionObj, C |-> ClassObj, x |-> IntObj],
   [B |-> FailingAttrClassObj],
   [s |-> LongStrObj, u |-> UnprintableObj, __secret |-> IntObj],
   [r |-> NearBoundaryStrObj, t |-> BoundaryStrObj],
   [__source__ |-> IntObj, x |-> IntObj]}

Run(dynamic, fault, binds) ==
  [dynamic |-> dynamic, fault |-> fault, binds |-> binds, tamper |-> NoTamper,
   halts |-> TRUE]
\* a run that never ends, e.g. `while True: pass`
DivergingRun == [Run(<<>>, NoFault, NoBindings) EXCEPT !.halts = FALSE]
\* a run that rebinds or mutates a module global and ends normally
TamperingRun(how) == [Run(<<>>, NoFault, NoBindings) EXCEPT !.tamper = how]
QuietRun == Run(<<>>, NoFault, [f |-> FunctionObj, C |-> ClassObj, x |-> IntObj])

Runs ==
  {Run(d, NoFault, b) : d \in DynamicLoads, b \in {NoBindings}}
  \cup {Run(<<>>, f, NoBindings) : f \in FaultTypes}
  \cup {Run(<<>>, NoFault, b) : b \in Bindings}
  \cup {TamperingRun(how) : how \in Tampers}
  \cup {DivergingRun}

Submission(source, run) ==
  [parses |-> source.parses, tree |-> source.tree, run |-> run]

(***************************************************************************)
(* The harness text, by what executing it does: the exception it raises,   *)
(* what it binds to the name grade, and what calling grade(user_ns) does.   *)
(***************************************************************************)
\* values of a field of the record grade returns
Absent == [t |-> "absent", v |-> 0]
IntVal(n) == [t |-> "int", v |-> n]
\* a float, in tenths
FloatVal(tenths) == [t |-> "float", v |-> tenths]
\* a string that is not a number
TextVal == [t |-> "str", v |-> 0]

GradeRecord(isDict, score, max_score, feedback) ==
  [isDict |-> isDict, score |-> score, max_score |-> max_score,
   feedback |-> feedback]

GradeRecords ==
  {GradeRecord(TRUE, IntVal(100), IntVal(100), TextVal),
   GradeRecord(TRUE, IntVal(5), Absent, Absent),
   GradeRecord(TRUE, Absent, IntVal(10), TextVal),
   GradeRecord(TRUE, FloatVal(79), IntVal(10), Absent),
   GradeRecord(TRUE, IntVal(0 - 3), IntVal(10), TextVal),
   GradeRecord(TRUE, IntVal(150), Absent, TextVal),
   GradeRecord(TRUE, FloatVal(0 - 25), FloatVal(105), Absent),
   GradeRecord(TRUE, TextVal, IntVal(100), TextVal),
   GradeRecord(FALSE, Absent, Absent, Absent)}

\* sets and dels: the names grade binds in, and deletes from, the scope it
\* is called with
Harness(fault, grade, gradeFault, returns) ==
  [fault |-> fault, grade |-> grade, gradeFault |-> gradeFault,
   returns |-> returns, sets |-> NoBindings, dels |-> {},
   halts |-> TRUE, gradeHalts |-> TRUE]

DefaultRecord == GradeRecord(TRUE, IntVal(100), IntVal(100), TextVal)
GoodHarness == Harness(NoFault, "callable", NoFault, DefaultRecord)
\* a harness whose grade adds a name to the scope, rebinds two and deletes one
MeddlingHarness ==
  [GoodHarness EXCEPT
     !.sets = [injected |-> IntObj, x |-> LongStrObj, __source__ |-> IntObj],
     !.dels = {"f"}]

Harnesses ==
  {Harness(f, "absent", NoFault, DefaultRecord) : f \in FaultTypes}
  \cup {Harness(NoFault, g, NoFault, DefaultRecord) :
          g \in {"absent", "noncallable"}}
  \cup {Harness(NoFault, "callable", f, DefaultRecord) : f \in FaultTypes}
  \cup {Harness(NoFault, "callable", NoFault, r) : r \in GradeRecords}
  \cup {MeddlingHarness}
  \cup {[GoodHarness EXCEPT !.halts = FALSE],
        [GoodHarness EXCEPT !.gradeHalts = FALSE]}

(***************************************************************************)
(* Pure parts of run_user_and_tests (app.py:98-169).                        *)
(***************************************************************************)
\* restricted_import (app.py:118-121): TRUE when the load is handed to
\* builtins.__import__, FALSE when ImportError is raised
\* variant: only the modules with a list of permitted symbols are granted
restricted_import_ListedOnly(name, fromlist) ==
  \/ name \in {m \in AllowedKeys : ~module_globals.ALLOWED_IMPORTS[m].all}
  \/ fromlist /= <<>> /\ \E i \in 1..Len(fromlist) : fromlist[i] \in AllowedKeys

restricted_import(name, fromlist) ==
  \/ name \in AllowedKeys
  \/ fromlist /= <<>> /\ \E i \in 1..Len(fromlist) : fromlist[i] \in AllowedKeys

\* the calls of __import__ the import statements of the module body make
\* when the unit runs: one per alias of `import a, b`, one per `from m import`
RECURSIVE StaticLoads(_)
StaticLoads(body) ==
  IF body = <<>> THEN <<>>
  ELSE LET st == Head(body)
       IN  (IF st.kind = "Import"
              THEN [i \in 1..Len(st.names) |-> LoadRequest(st.names[i], <<>>)]
            ELSE IF st.kind = "ImportFrom"
              THEN <<LoadRequest(st.module, st.names)>>
            ELSE <<>>) \o StaticLoads(Tail(body))

MsgLoader   == "Import of '{name}' is not allowed"
MsgProtocol == "Test script must define grade(user_ns) -> dict."
MsgFault    == "{fault raised by the unit}"
MsgNoModule == "No module named '{name}'"
MsgInt      == "invalid literal for int() with base 10: {value}"
MsgNoGet    == "'{type}' object has no attribute 'get'"
MsgAttr     == "{fault raised by reading the attribute}"

\* the scopes run_user_and_tests builds (app.py:124-143)
user_builtins == [base |-> module_globals.SAFE_BUILTINS, import |-> "restricted_import"]
test_builtins ==
  [base |-> module_globals.SAFE_BUILTINS, import |-> "builtins.__import__",
   __name__ |-> "__main__", __file__ |-> "<tests>"]
NoScope == [n \in {} |-> ""]
NewUserScope(user_code) ==
  [__builtins__ |-> user_builtins, __source__ |-> user_code,
   __name__ |-> "__main__"]
NewTestScope == [__builtins__ |-> test_builtins, inspect |-> "inspect"]

\* variant: a float is rounded down instead of truncated toward zero
IntOf_Floor(val) ==
  IF val.t = "float" THEN val.v \div 10 ELSE val.v

\* int(x) of a field value; defined for the values int() accepts
IntOf(val) ==
  IF val.t = "float"
    THEN (IF val.v >= 0 THEN val.v \div 10 ELSE 0 - ((0 - val.v) \div 10))
    ELSE val.v
IntRaises(val) == val.t = "str"
\* result.get(key, default)
Get(val, default) == IF val.t = "absent" THEN default ELSE val

(***************************************************************************)
(* capture_execution_results (app.py:172-232).                              *)
(***************************************************************************)
\* names beginning with two underscores, among the names the model uses
DunderNames == {"__builtins__", "__source__", "__name__", "__secret"}
\* attribute names beginning with an underscore
UnderscoreNames == {"__init__", "_helper"}

CapturedNames(user_ns) == DOMAIN user_ns \ DunderNames
\* variant: every callable object is taken for a function
IsFunction_AnyCallable(obj) == obj.callable
IsFunction(obj) == obj.callable /\ ~obj.isType
IsClass(obj) == obj.isType
IsVariable(obj) == ~IsFunction(obj) /\ ~IsClass(obj) /\ ~obj.callable

\* variant: only double-underscore attribute names are skipped
PublicAttrs_DunderOnly(obj) ==
  SelectSeq(obj.attrs, LAMBDA a : a.name \notin DunderNames \cup {"__init__"})

\* the public attributes getattr reads, in dir() order
PublicAttrs(obj) ==
  SelectSeq(obj.attrs, LAMBDA a : a.name \notin UnderscoreNames)
Methods(obj) ==
  LET pub == SelectSeq(PublicAttrs(obj), LAMBDA a : a.callable)
  IN  [i \in 1..Len(pub) |-> pub[i].name]

\* the captured value: str(obj) if shorter than 100, else 97 characters
\* and "..."; given as the length of the text and whether it was cut
CapturedValue(obj) ==
  IF obj.strRaises THEN [text |-> "<unable to serialize>", len |-> 21, cut |-> FALSE]
  ELSE IF obj.strLen < 100 THEN [text |-> "str(obj)", len |-> obj.strLen, cut |-> FALSE]
  ELSE [text |-> "str(obj)[:97] + ...", len |-> 97 + 3, cut |-> TRUE]

\* variant: a failing str(obj) aborts the capture as well
CaptureRaises_StrToo(user_ns) ==
  \E n \in CapturedNames(user_ns) :
     \/ /\ IsClass(user_ns[n])
        /\ \E i \in 1..Len(PublicAttrs(user_ns[n])) : PublicAttrs(user_ns[n])[i].raises
     \/ IsVariable(user_ns[n]) /\ user_ns[n].strRaises

\* TRUE when capture raises: getattr (app.py:212) is outside any try
CaptureRaises(user_ns) ==
  \E n \in CapturedNames(user_ns) :
     /\ IsClass(user_ns[n])
     /\ \E i \in 1..Len(PublicAttrs(user_ns[n])) : PublicAttrs(user_ns[n])[i].raises

capture_execution_results(user_ns, user_code) ==
  LET names == CapturedNames(user_ns)
  IN  [functions |->
         [n \in {m \in names : IsFunction(user_ns[m])} |->
            [name |-> n, type |-> "function"]],
       classes |->
         [n \in {m \in names : IsClass(user_ns[m])} |->
            [name |-> n, type |-> "class", methods |-> Methods(user_ns[n])]],
       variables |->
         [n \in {m \in names : IsVariable(user_ns[m])} |->
            [name |-> n, type |-> user_ns[n].typeName,
             value |-> CapturedValue(user_ns[n])]],
       user_code |-> user_code]

(***************************************************************************)
(* One grading request: grade_submission (app.py:234-309) calling          *)
(* run_user_and_tests.  pc is the position of the handler.                  *)
(***************************************************************************)
VARIABLES
  code,      \* data["code"]: the submission
  lookup,    \* what the catalog lookup of moduleId/workshopId/approachId finds
  tests,     \* tests_code of the workshop: the harness
  viz,       \* ws.get("visualizations", [])
  pc,        \* position of the handler
  user_ns,   \* submission scope
  test_ns,   \* harness scope
  graded,    \* the record grade(user_ns) returned
  locals,    \* score, feedback, max_score of run_user_and_tests
  result,    \* the dict run_user_and_tests returned
  exc,       \* the exception propagating to the handler
  response,  \* the HTTP response of the request
  stages,    \* history: the protocol stages the request completed, in order
  ran,       \* history: the units whose execution was started, in order
  loads,     \* history: the load requests restricted_import granted
  served,    \* the number of grading requests the process has received
  peer,      \* a request another thread of the server is handling
  validated  \* history: source, policy and verdict of every validation

vars == <<code, lookup, tests, viz, pc, user_ns, test_ns, graded, locals,
          result, exc, response, stages, ran, loads, module_globals, served,
          peer, validated>>

NoExc == [type |-> NoFault, msg |-> NoMsg, raisedIn |-> ""]
NoResponse == [sent |-> FALSE, status |-> 0, body |-> [n \in {} |-> ""]]
NoRecord == GradeRecord(FALSE, Absent, Absent, Absent)
NoLocals == [n \in {} |-> 0]
NoResult == [n \in {} |-> 0]

Lookups == {"ok", "missing_fields", "module_not_found", "workshop_not_found",
            "approach_required", "approach_not_found"}

\* sources the protocol is explored with under every run and every harness
ExprStmt == Node("Expr", "", <<>>, <<>>)
ProbeSources ==
  {ParsedSource(<<ExprStmt>>),
   ParsedSource(<<Node("ImportFrom", "functools", <<"wraps">>, <<>>), ExprStmt>>)}

\* the sampled requests: every source under a quiet run, the probe sources
\* under every run and harness, and one request per outcome of the lookup
Requests ==
  {[code |-> Submission(s, QuietRun), lookup |-> "ok", tests |-> h, viz |-> <<>>] :
      s \in Sources,
      h \in {GoodHarness, Harness(NoFault, "absent", NoFault, DefaultRecord)}}
  \cup
  {[code |-> Submission(s, r), lookup |-> "ok", tests |-> h, viz |-> v] :
      s \in ProbeSources, r \in Runs, h \in Harnesses,
      v \in {<<>>, <<"flowchart">>}}
  \cup
  {[code |-> Submission(ParsedSource(<<ExprStmt>>), QuietRun), lookup |-> l,
    tests |-> GoodHarness, viz |-> <<>>] : l \in Lookups}

\* no other request is in progress
NoPeer == [pc |-> "none", tamper |-> NoTamper]

\* the handler is entered with the request r
Receive(r) ==
  /\ code = r.code
  /\ lookup = r.lookup
  /\ tests = r.tests
  /\ viz = r.viz

\* the frame of a handler just entered, in a process just started
NewProcess ==
  /\ pc = "received"
  /\ user_ns = NoScope
  /\ test_ns = NoScope
  /\ graded = NoRecord
  /\ locals = NoLocals
  /\ result = NoResult
  /\ exc = NoExc
  /\ response = NoResponse
  /\ stages = <<"Received">>
  /\ ran = <<>>
  /\ loads = <<>>
  /\ module_globals = ModuleGlobals
  /\ served = 1
  /\ validated = <<>>

InitRequest == (\E r \in Requests : Receive(r)) /\ NewProcess

\* the first request of a freshly started process, handled alone
Init == InitRequest /\ peer = NoPeer

\* requests whose units end, fail or never end
LiveRequests ==
  {[code |-> Submission(ParsedSource(<<stmt>>), r), lookup |-> "ok",
    tests |-> h, viz |-> <<>>] :
      stmt \in {ExprStmt, Node("Import", "", <<"os">>, <<>>)},
      r \in {QuietRun, DivergingRun, Run(<<>>, "ValueError", NoBindings),
             Run(<<>>, "BaseException", NoBindings)},
      h \in {GoodHarness, [GoodHarness EXCEPT !.halts = FALSE],
             [GoodHarness EXCEPT !.gradeHalts = FALSE],
             Harness(NoFault, "absent", NoFault, DefaultRecord),
             Harness(NoFault, "callable", "ValueError", DefaultRecord)}}

InitLive ==
  (\E r \in LiveRequests : Receive(r)) /\ NewProcess /\ peer = NoPeer

\* raise: the exception leaves run_user_and_tests for the handler's except
Raise(type, msg, where) ==
  /\ exc' = [type |-> type, msg |-> msg, raisedIn |-> where]
  /\ pc' = "raised"

\* return jsonify({"ok": False, "error": text}), status
ErrorResponse(status, text) ==
  [sent |-> TRUE, status |-> status,
   body |-> [ok |-> FALSE, error |-> Msg(text, "")]]

\* app.py:258-290: read the request, find the workshop and its tests
Lookup ==
  /\ pc = "received"
  /\ \/ /\ lookup = "ok"
        /\ pc' = "validate"
        /\ UNCHANGED <<exc, response>>
     \/ /\ lookup = "module_not_found"
        /\ Raise("FileNotFoundError", Msg("No such file or directory", ""), "open")
        /\ UNCHANGED response
     \/ /\ lookup \in {"missing_fields", "approach_required"}
        /\ response' = ErrorResponse(400,
             IF lookup = "missing_fields" THEN "Missing required fields"
             ELSE "approachId required for multi-approach workshops")
        /\ pc' = "done"
        /\ UNCHANGED exc
     \/ /\ lookup \in {"workshop_not_found", "approach_not_found"}
        /\ response' = ErrorResponse(404,
             IF lookup = "workshop_not_found" THEN "Workshop not found"
             ELSE "Approach not found")
        /\ pc' = "done"
        /\ UNCHANGED exc
  /\ UNCHANGED <<code, lookup, tests, viz, user_ns, test_ns, graded, locals,
                 result, stages, ran, loads>>
  /\ UNCHANGED <<module_globals, served, peer, validated>>

\* one validation: the text and the policy validate_source read, and the
\* verdict it gave
Validation(source, verdict) ==
  [source |-> [parses |-> source.parses, tree |-> source.tree],
   policy |-> [DISALLOWED_NODES |-> module_globals.DISALLOWED_NODES,
               ALLOWED_IMPORTS  |-> module_globals.ALLOWED_IMPORTS],
   verdict |-> verdict]

\* variant: a rejected import is remembered as allowed from then on
Validate_LearnsImport ==
  /\ pc = "validate"
  /\ LET verdict == validate_source(code)
     IN  /\ validated' = Append(validated, Validation(code, verdict))
         /\ IF verdict = NoMsg
              THEN /\ pc' = "build_scopes"
                   /\ stages' = Append(stages, "Validated")
                   /\ UNCHANGED <<exc, module_globals>>
              ELSE /\ Raise("ValueError", verdict, "validate_source")
                   /\ module_globals' =
                        IF verdict.fmt = MsgImport
                          THEN Tamper(module_globals, "allow_os")
                          ELSE module_globals
                   /\ UNCHANGED stages
  /\ UNCHANGED <<code, lookup, tests, viz, user_ns, test_ns, graded, locals,
                 result, response, ran, loads>>
  /\ UNCHANGED <<served, peer>>

\* app.py:115: validate_source(user_code)
Validate ==
  /\ pc = "validate"
  /\ LET verdict == validate_source(code)
     IN  /\ validated' = Append(validated, Validation(code, verdict))
         /\ IF verdict = NoMsg
              THEN /\ pc' = "build_scopes"
                   /\ stages' = Append(stages, "Validated")
                   /\ UNCHANGED exc
              ELSE /\ Raise("ValueError", verdict, "validate_source")
                   /\ UNCHANGED stages
  /\ UNCHANGED <<code, lookup, tests, viz, user_ns, test_ns, graded, locals,
                 result, response, ran, loads>>
  /\ UNCHANGED <<module_globals, served, peer>>

\* app.py:117-143: the restricted loader and the two scopes
BuildScopes ==
  /\ pc = "build_scopes"
  /\ user_ns' = NewUserScope(code)
  /\ test_ns' = NewTestScope
  /\ pc' = "exec_user"
  /\ UNCHANGED <<code, lookup, tests, viz, graded, locals, result, exc,
                 response, stages, ran, loads>>
  /\ UNCHANGED <<module_globals, served, peer, validated>>

\* variant: a fault of the submission unit is swallowed and the run goes on
ExecUser_SwallowsFault ==
  /\ pc = "exec_user"
  /\ ran' = Append(ran, "submission")
  /\ loads' = loads
  /\ IF code.run.fault /= NoFault
       THEN UNCHANGED <<user_ns, stages, module_globals>>
       ELSE /\ user_ns' = code.run.binds @@ user_ns
            /\ module_globals' = Tamper(module_globals, code.run.tamper)
            /\ stages' = Append(stages, "SubmissionExecuted")
  /\ pc' = "exec_tests"
  /\ UNCHANGED <<code, lookup, tests, viz, test_ns, graded, locals, result,
                 exc, response, served, peer, validated>>

\* variant: a unit that does not end is stopped with a timeout error
ExecUser_Deadline ==
  /\ pc = "exec_user"
  /\ ran' = Append(ran, "submission")
  /\ loads' = loads \o StaticLoads(code.tree.body) \o code.run.dynamic
  /\ IF code.run.fault /= NoFault \/ ~code.run.halts
       THEN /\ Raise(IF code.run.halts THEN code.run.fault ELSE "TimeoutError",
                     Msg(MsgFault, ""), "<user>")
            /\ UNCHANGED <<user_ns, stages, module_globals>>
       ELSE /\ user_ns' = code.run.binds @@ user_ns
            /\ module_globals' = Tamper(module_globals, code.run.tamper)
            /\ stages' = Append(stages, "SubmissionExecuted")
            /\ pc' = "exec_tests"
            /\ UNCHANGED exc
  /\ UNCHANGED <<code, lookup, tests, viz, test_ns, graded, locals, result,
                 response, served, peer, validated>>

\* app.py:146: exec the submission unit in user_ns
ExecUser ==
  /\ pc = "exec_user"
  /\ ran' = Append(ran, "submission")
  /\ LET reqs == StaticLoads(code.tree.body) \o code.run.dynamic
         bad == FirstFalse([i \in 1..Len(reqs) |->
                   restricted_import(reqs[i].name, reqs[i].fromlist)])
         granted == IF bad = 0 THEN reqs ELSE SubSeq(reqs, 1, bad - 1)
         numpy == \E i \in 1..Len(granted) : granted[i].name = "numpy"
     IN  /\ loads' = loads \o granted
         /\ \E installed \in (IF numpy THEN BOOLEAN ELSE {TRUE}) :
              IF ~installed
                THEN /\ Raise("ModuleNotFoundError", Msg(MsgNoModule, "numpy"),
                              "<user>")
                     /\ UNCHANGED <<user_ns, stages, module_globals>>
              ELSE IF bad /= 0
                THEN /\ Raise("ImportError", Msg(MsgLoader, reqs[bad].name),
                              "restricted_import")
                     /\ UNCHANGED <<user_ns, stages, module_globals>>
              ELSE IF code.run.fault /= NoFault
                THEN /\ Raise(code.run.fault, Msg(MsgFault, ""), "<user>")
                     /\ UNCHANGED <<user_ns, stages, module_globals>>
              ELSE IF ~code.run.halts
                THEN /\ pc' = "running"
                     /\ UNCHANGED <<user_ns, stages, module_globals, exc>>
              ELSE /\ user_ns' = code.run.binds @@ user_ns
                   /\ module_globals' = Tamper(module_globals, code.run.tamper)
                   /\ stages' = Append(stages, "SubmissionExecuted")
                   /\ pc' = "exec_tests"
                   /\ UNCHANGED exc
  /\ UNCHANGED <<code, lookup, tests, viz, test_ns, graded, locals, result,
                 response, served, peer, validated>>

\* variant: a fault of the harness unit is swallowed and the run goes on
ExecTests_SwallowsFault ==
  /\ pc = "exec_tests"
  /\ ran' = Append(ran, "harness")
  /\ IF tests.fault /= NoFault
       THEN UNCHANGED <<test_ns, stages>>
       ELSE /\ test_ns' =
                 IF tests.grade = "absent" THEN test_ns
                 ELSE [grade |-> [callable |-> tests.grade = "callable"]] @@ test_ns
            /\ stages' = Append(stages, "HarnessExecuted")
  /\ pc' = "check_grade"
  /\ UNCHANGED <<code, lookup, tests, viz, user_ns, graded, locals, result,
                 exc, response, loads>>
  /\ UNCHANGED <<module_globals, served, peer, validated>>

\* app.py:149: exec the harness unit in test_ns
ExecTests ==
  /\ pc = "exec_tests"
  /\ ran' = Append(ran, "harness")
  /\ IF tests.fault /= NoFault
       THEN /\ Raise(tests.fault, Msg(MsgFault, ""), "<tests>")
            /\ UNCHANGED <<test_ns, stages>>
     ELSE IF ~tests.halts
       THEN /\ pc' = "running"
            /\ UNCHANGED <<test_ns, stages, exc>>
       ELSE /\ test_ns' =
                 IF tests.grade = "absent" THEN test_ns
                 ELSE [grade |-> [callable |-> tests.grade = "callable"]] @@ test_ns
            /\ stages' = Append(stages, "HarnessExecuted")
            /\ pc' = "check_grade"
            /\ UNCHANGED exc
  /\ UNCHANGED <<code, lookup, tests, viz, user_ns, graded, locals, result,
                 response, loads>>
  /\ UNCHANGED <<module_globals, served, peer, validated>>

\* variant: only the presence of the name grade is tested
CheckGrade_PresenceOnly ==
  /\ pc = "check_grade"
  /\ IF "grade" \notin DOMAIN test_ns
       THEN Raise("RuntimeError", Msg(MsgProtocol, ""), "run_user_and_tests")
       ELSE pc' = "call_grade" /\ UNCHANGED exc
  /\ UNCHANGED <<code, lookup, tests, viz, user_ns, test_ns, graded, locals,
                 result, response, stages, ran, loads>>
  /\ UNCHANGED <<module_globals, served, peer, validated>>

\* variant: a missing grade is not tested for, only a non-callable one
CheckGrade_CallableOnly ==
  /\ pc = "check_grade"
  /\ IF "grade" \in DOMAIN test_ns /\ ~test_ns["grade"].callable
       THEN Raise("RuntimeError", Msg(MsgProtocol, ""), "run_user_and_tests")
       ELSE pc' = "call_grade" /\ UNCHANGED exc
  /\ UNCHANGED <<code, lookup, tests, viz, user_ns, test_ns, graded, locals,
                 result, response, stages, ran, loads>>
  /\ UNCHANGED <<module_globals, served, peer, validated>>

\* app.py:151-152: the harness must have published a callable grade
CheckGrade ==
  /\ pc = "check_grade"
  /\ IF "grade" \notin DOMAIN test_ns \/ ~test_ns["grade"].callable
       THEN Raise("RuntimeError", Msg(MsgProtocol, ""), "run_user_and_tests")
       ELSE pc' = "call_grade" /\ UNCHANGED exc
  /\ UNCHANGED <<code, lookup, tests, viz, user_ns, test_ns, graded, locals,
                 result, response, stages, ran, loads>>
  /\ UNCHANGED <<module_globals, served, peer, validated>>

\* the scope once grade, called with the dict itself, has deleted and bound
\* names in it
AfterGrade(ns, sets, dels) ==
  [n \in (DOMAIN ns \ dels) \cup DOMAIN sets |->
     IF n \in DOMAIN sets THEN sets[n] ELSE ns[n]]

\* app.py:154: result = test_ns["grade"](user_ns)
CallGrade ==
  /\ pc = "call_grade"
  /\ ran' = Append(ran, "grade")
  /\ IF "grade" \notin DOMAIN test_ns
       THEN /\ Raise("KeyError", Msg("'grade'", ""), "run_user_and_tests")
            /\ UNCHANGED <<graded, stages, user_ns>>
     ELSE IF ~test_ns["grade"].callable
       THEN /\ Raise("TypeError", Msg("object is not callable", ""),
                     "run_user_and_tests")
            /\ UNCHANGED <<graded, stages, user_ns>>
     ELSE IF tests.gradeFault /= NoFault
       THEN /\ Raise(tests.gradeFault, Msg(MsgFault, ""), "grade")
            /\ UNCHANGED <<graded, stages, user_ns>>
     ELSE IF ~tests.gradeHalts
       THEN /\ pc' = "running"
            /\ UNCHANGED <<graded, stages, user_ns, exc>>
       ELSE /\ graded' = tests.returns
            /\ user_ns' = AfterGrade(user_ns, tests.sets, tests.dels)
            /\ stages' = Append(stages, "Graded")
            /\ pc' = "normalize"
            /\ UNCHANGED exc
  /\ UNCHANGED <<code, lookup, tests, viz, test_ns, locals, result,
                 response, loads>>
  /\ UNCHANGED <<module_globals, served, peer, validated>>

\* app.py:157-159: score, feedback, max_score
Normalize ==
  /\ pc = "normalize"
  /\ LET score == Get(graded.score, IntVal(0))
         max_score == Get(graded.max_score, IntVal(100))
     IN  IF ~graded.isDict
           THEN /\ Raise("AttributeError", Msg(MsgNoGet, "NoneType"),
                         "run_user_and_tests")
                /\ UNCHANGED locals
         ELSE IF IntRaises(score)
           THEN /\ Raise("ValueError", Msg(MsgInt, "score"), "run_user_and_tests")
                /\ UNCHANGED locals
         ELSE IF IntRaises(max_score)
           THEN /\ Raise("ValueError", Msg(MsgInt, "max_score"),
                         "run_user_and_tests")
                /\ UNCHANGED locals
         ELSE /\ locals' = [score |-> IntOf(score),
                            feedback |-> IF graded.feedback.t = "absent"
                                           THEN "" ELSE "str(feedback)",
                            max_score |-> IntOf(max_score)]
              /\ pc' = "capture"
              /\ UNCHANGED exc
  /\ UNCHANGED <<code, lookup, tests, viz, user_ns, test_ns, graded, result,
                 response, stages, ran, loads>>
  /\ UNCHANGED <<module_globals, served, peer, validated>>

\* variant: the source text is read back from the scope
Capture_SourceFromScope ==
  /\ pc = "capture"
  /\ IF CaptureRaises(user_ns)
       THEN /\ Raise("AttributeError", Msg(MsgAttr, ""),
                     "capture_execution_results")
            /\ UNCHANGED result
       ELSE /\ result' =
                 [score |-> locals.score, max_score |-> locals.max_score,
                  feedback |-> locals.feedback,
                  execution_results |->
                     capture_execution_results(user_ns, user_ns["__source__"])]
            /\ pc' = "respond"
            /\ UNCHANGED exc
  /\ UNCHANGED <<code, lookup, tests, viz, user_ns, test_ns, graded, locals,
                 response, stages, ran, loads>>
  /\ UNCHANGED <<module_globals, served, peer, validated>>

\* app.py:162-169: capture the scope and return the result dict
Capture ==
  /\ pc = "capture"
  /\ IF CaptureRaises(user_ns)
       THEN /\ Raise("AttributeError", Msg(MsgAttr, ""),
                     "capture_execution_results")
            /\ UNCHANGED result
       ELSE /\ result' =
                 [score |-> locals.score, max_score |-> locals.max_score,
                  feedback |-> locals.feedback,
                  execution_results |-> capture_execution_results(user_ns, code)]
            /\ pc' = "respond"
            /\ UNCHANGED exc
  /\ UNCHANGED <<code, lookup, tests, viz, user_ns, test_ns, graded, locals,
                 response, stages, ran, loads>>
  /\ UNCHANGED <<module_globals, served, peer, validated>>

\* jsonify({"ok": True, **result}) (app.py:299)
OkBody(res) == [ok |-> TRUE] @@ res

\* app.py:292-299: elapsed_ms, visualizations, the success response
Respond ==
  /\ pc = "respond"
  /\ \E ms \in 0..MaxElapsedMs :
       LET timed == [elapsed_ms |-> ms] @@ result
           full  == IF viz /= <<>> THEN [visualizations |-> viz] @@ timed
                    ELSE timed
       IN  /\ result' = full
           /\ response' = [sent |-> TRUE, status |-> 200, body |-> OkBody(full)]
  /\ stages' = Append(stages, "Reported")
  /\ pc' = "done"
  /\ UNCHANGED <<code, lookup, tests, viz, user_ns, test_ns, graded, locals,
                 exc, ran, loads>>
  /\ UNCHANGED <<module_globals, served, peer, validated>>

\* traceback.format_exc().splitlines(): the header, the lines of each frame
\* from the handler to the raising one, and the exception line
Traceback(e) ==
  <<"Traceback (most recent call last):">>
  \o (IF e.raisedIn = "open"
        THEN <<"File app.py, line 268, in grade_submission", "with open(...)">>
        ELSE <<"File app.py, line 291, in grade_submission",
               "result = run_user_and_tests(code, tests_code)",
               "File app.py, in run_user_and_tests", "<the raising line>">>)
  \o (IF e.raisedIn \in {"open", "run_user_and_tests"} THEN <<>>
      ELSE IF e.raisedIn \in {"<user>", "<tests>"}
        THEN <<"File " \o e.raisedIn \o ", in <module>">>
      ELSE IF e.raisedIn = "restricted_import"
        THEN <<"File <user>, in <module>", "File app.py, in restricted_import",
               "raise ImportError(...)">>
      ELSE IF e.raisedIn = "grade"
        THEN <<"File <tests>, in grade">>
      ELSE <<"File app.py, in " \o e.raisedIn, "<the raising line>">>)
  \o <<e.type \o ": str(e)">>

\* trace_lines[-3:] if len(trace_lines) >= 3 else trace_lines
LastThree(lines) ==
  IF Len(lines) >= 3 THEN SubSeq(lines, Len(lines) - 2, Len(lines)) ELSE lines

\* the except clauses of the handler (app.py:301-309), in order
Handler(e) ==
  IF e.type = "FileNotFoundError" THEN "not_found"
  ELSE IF IsException(e.type) THEN "error"
  ELSE "propagate"

\* variant: the error response also carries what was computed so far
FaultResponse_WithPartial(e) ==
  [sent |-> TRUE, status |-> 400,
   body |-> [ok |-> FALSE, error |-> e.msg,
             trace |-> LastThree(Traceback(e))] @@ locals]

\* the body of the `except Exception` response (app.py:305-309)
FaultResponse(e) ==
  [sent |-> TRUE, status |-> 400,
   body |-> [ok |-> FALSE, error |-> e.msg,
             trace |-> LastThree(Traceback(e))]]

HandleException ==
  /\ pc = "raised"
  /\ \/ /\ Handler(exc) = "not_found"
        /\ response' = ErrorResponse(404, "Module not found")
        /\ pc' = "done"
     \/ /\ Handler(exc) = "error"
        /\ response' = FaultResponse(exc)
        /\ pc' = "done"
     \/ /\ Handler(exc) = "propagate"
        /\ pc' = "crashed"
        /\ UNCHANGED response
  /\ UNCHANGED <<code, lookup, tests, viz, user_ns, test_ns, graded, locals,
                 result, exc, stages, ran, loads>>
  /\ UNCHANGED <<module_globals, served, peer, validated>>

Next ==
  \/ Lookup
  \/ Validate
  \/ BuildScopes
  \/ ExecUser
  \/ ExecTests
  \/ CheckGrade
  \/ CallGrade
  \/ Normalize
  \/ Capture
  \/ Respond
  \/ HandleException

Spec == Init /\ [][Next]_vars

\* the interpreter keeps running the handler's thread: a step that can be
\* taken is taken
SpecLive == InitLive /\ [][Next]_vars /\ WF_vars(Next)

(***************************************************************************)
(* The server process: app.run (app.py:317-318) serves every request to    *)
(* /api/grade from the one loaded module, one after the other or in        *)
(* threads of the same process.                                             *)
(***************************************************************************)
\* requests that arrive once an earlier one has been answered
FollowUps ==
  {[code |-> Submission(ParsedSource(<<stmt>>), r), lookup |-> "ok",
    tests |-> GoodHarness, viz |-> <<>>] :
      stmt \in {ExprStmt, Node("Import", "", <<"os">>, <<>>),
                Node("With", "", <<>>, <<>>)},
      r \in {QuietRun, TamperingRun("leak_builtin")}}

\* the handler is entered again: a new frame, the same module namespace
NextRequest ==
  /\ pc \in {"done", "crashed"}
  /\ served < MaxRequests
  /\ \E r \in FollowUps :
       /\ code' = r.code
       /\ lookup' = r.lookup
       /\ tests' = r.tests
       /\ viz' = r.viz
  /\ pc' = "received"
  /\ user_ns' = NoScope
  /\ test_ns' = NoScope
  /\ graded' = NoRecord
  /\ locals' = NoLocals
  /\ result' = NoResult
  /\ exc' = NoExc
  /\ response' = NoResponse
  /\ stages' = <<"Received">>
  /\ ran' = <<>>
  /\ loads' = <<>>
  /\ served' = served + 1
  /\ UNCHANGED <<module_globals, peer, validated>>

\* the first request of the process, when further ones follow it
FirstRequests ==
  FollowUps
  \cup {[code |-> Submission(ParsedSource(<<ExprStmt>>), TamperingRun(how)),
         lookup |-> "ok", tests |-> GoodHarness, viz |-> <<>>] :
           how \in Tampers}

InitSeq ==
  (\E r \in FirstRequests : Receive(r)) /\ NewProcess /\ peer = NoPeer

\* requests served one after the other
SpecSeq == InitSeq /\ [][Next \/ NextRequest]_vars

\* a request handled by another thread: its submission passes validation
\* and its execution is about to tamper with the module namespace; all its
\* other steps touch its own frame only
Peers == {[pc |-> "exec_user", tamper |-> how] : how \in Tampers}

\* app.py:146 in the other thread
PeerExecUser ==
  /\ peer.pc = "exec_user"
  /\ module_globals' = Tamper(module_globals, peer.tamper)
  /\ peer' = [peer EXCEPT !.pc = "done"]
  /\ UNCHANGED <<code, lookup, tests, viz, pc, user_ns, test_ns, graded,
                 locals, result, exc, response, stages, ran, loads, served,
                 validated>>

InitPar == InitRequest /\ peer \in Peers

\* two requests handled in parallel
SpecPar == InitPar /\ [][Next \/ PeerExecUser]_vars

TypeOK ==
  /\ pc \in {"received", "validate", "build_scopes", "exec_user", "exec_tests",
             "check_grade", "call_grade", "normalize", "capture", "respond",
             "raised", "done", "crashed", "running"}
  /\ response.sent \in BOOLEAN

(***************************************************************************)
(* The policy as the specification states it, and what it makes of a node. *)
(***************************************************************************)
PolicyDisallowed == {"Global", "Nonlocal", "With", "AsyncWith"}
PolicyModules == {"functools", "time", "numpy"}
PolicySymbols == [functools |-> {"wraps"},
                  time |-> {"sleep", "time", "perf_counter"}]

RECURSIVE SubtreeNodes(_)
SubtreeNodes(n) ==
  {n} \cup UNION {SubtreeNodes(n.body[i]) : i \in 1..Len(n.body)}

DisallowedConstruct(n) == n.kind \in PolicyDisallowed
ImportViolation(n) ==
  \/ n.kind = "Import" /\ \E i \in 1..Len(n.names) : n.names[i] \notin PolicyModules
  \/ n.kind = "ImportFrom" /\ n.module \notin PolicyModules
SymbolViolation(n) ==
  /\ n.kind = "ImportFrom"
  /\ n.module \in DOMAIN PolicySymbols
  /\ \E i \in 1..Len(n.names) : n.names[i] \notin PolicySymbols[n.module]
Violation(n) == DisallowedConstruct(n) \/ ImportViolation(n) \/ SymbolViolation(n)

SourceViolatesPolicy ==
  ~code.parses \/ \E n \in SubtreeNodes(code.tree) : Violation(n)

\* the request reached the engine and has ended
EngineEnded == lookup = "ok" /\ pc \in {"done", "crashed"}
\* the request ended in the failure response of a validation rejection
Rejected ==
  /\ response.sent /\ response.status = 400 /\ ~response.body.ok
  /\ exc.type = "ValueError" /\ exc.raisedIn = "validate_source"
  /\ response.body.error = exc.msg
Accepted == InSeq("Validated", stages)

ResultFields == {"score", "max_score", "feedback", "execution_results",
                 "elapsed_ms"}

(***************************************************************************)
(* Claims.                                                                  *)
(***************************************************************************)
\* C1: a source that validation rejects (parse failure or policy violation)
\* never has a scope built for it, and neither the submission, nor the
\* harness, nor grade is ever run; whatever ran, ran after validation
\* accepted.
C1_ValidationBeforeExecution ==
  /\ (lookup = "ok" /\ SourceViolatesPolicy) =>
        /\ ran = <<>>
        /\ DOMAIN user_ns = {} /\ DOMAIN test_ns = {}
        /\ ~Accepted
  /\ (ran /= <<>> \/ DOMAIN user_ns /= {} \/ DOMAIN test_ns /= {}) => Accepted

C1_Witness ==
  /\ pc = "done" /\ Rejected
  /\ ~code.parses /\ exc.msg.fmt = MsgSyntax /\ ran = <<>>

\* C2: the stages are completed in the order Received, Validated,
\* SubmissionExecuted, HarnessExecuted, Graded, Reported, each at most once;
\* a successful request completed all of them; the harness runs only after
\* the submission finished without fault, and grade is invoked only after
\* the harness finished without fault and published a callable grade.
AllStages == <<"Received", "Validated", "SubmissionExecuted",
               "HarnessExecuted", "Graded", "Reported">>
AllUnits == <<"submission", "harness", "grade">>
IsPrefix(s, t) == Len(s) <= Len(t) /\ s = SubSeq(t, 1, Len(s))

C2_StageOrder ==
  /\ IsPrefix(stages, AllStages)
  /\ IsPrefix(ran, AllUnits)
  /\ (response.sent /\ response.status = 200) => stages = AllStages
  /\ InSeq("harness", ran) => InSeq("SubmissionExecuted", stages)
  /\ InSeq("grade", ran) =>
        /\ InSeq("HarnessExecuted", stages)
        /\ "grade" \in DOMAIN test_ns /\ test_ns["grade"].callable

C2_Witness ==
  /\ pc = "done" /\ response.sent /\ response.status = 200
  /\ stages = AllStages /\ ran = AllUnits

\* C3: a fault raised by the submission unit, the harness unit or grade
\* never leaves the handler uncaught: the request ends with a failure
\* response carrying an error message and no grade result.
C3_NoFaultEscapes ==
  (pc \in {"done", "crashed"} /\ exc.raisedIn \in {"<user>", "<tests>", "grade"}) =>
     /\ pc = "done"
     /\ response.sent /\ ~response.body.ok
     /\ "error" \in DOMAIN response.body
     /\ DOMAIN response.body \cap ResultFields = {}

\* C4: a response is all-or-nothing: a success carries score, max_score,
\* feedback, the captured artifact and elapsed_ms together and no error; a
\* failure carries an error message and none of them, wherever it arose.
C4_AllOrNothing ==
  response.sent =>
     IF response.body.ok
       THEN /\ ResultFields \subseteq DOMAIN response.body
            /\ "error" \notin DOMAIN response.body
       ELSE /\ "error" \in DOMAIN response.body
            /\ DOMAIN response.body \cap ResultFields = {}

C4_Witness ==
  /\ pc = "done" /\ response.sent /\ ~response.body.ok
  /\ exc.raisedIn = "capture_execution_results"
  /\ DOMAIN locals /= {}

\* C5: every load the restricted loader grants is of a module that is a
\* key of the allow-list.
C5_LoaderChecksModule ==
  \A i \in 1..Len(loads) : loads[i].name \in PolicyModules

\* the first node, in the order of the walk, that violates the policy
FirstViolation ==
  LET w == Walk(<<code.tree>>)
  IN  w[FirstFalse([i \in 1..Len(w) |-> ~Violation(w[i])])]

\* the statement is nested in a function definition
LeadingStmtNested == code.parses /\ code.tree.body[1].kind = "FunctionDef"

\* C6 as stated: a source containing a disallowed construct at any depth is
\* rejected with the disallowed-feature error naming a disallowed construct
\* of the source, and neither unit is executed.
C6_Original ==
  (EngineEnded /\ code.parses) =>
     \A n \in SubtreeNodes(code.tree) :
        DisallowedConstruct(n) =>
           /\ Rejected
           /\ response.body.error.fmt = MsgDisallowed
           /\ \E m \in SubtreeNodes(code.tree) :
                 DisallowedConstruct(m) /\ response.body.error.arg = m.kind
           /\ ran = <<>>

\* C6 (amended): a source containing a disallowed construct at any depth is
\* rejected by validation and neither unit is executed; the error is the
\* disallowed-feature error naming that construct when the construct is the
\* first policy violation the breadth-first walk meets.
C6_DisallowedRejected ==
  (EngineEnded /\ code.parses) =>
     \A n \in SubtreeNodes(code.tree) :
        DisallowedConstruct(n) =>
           /\ Rejected
           /\ ran = <<>>
           /\ FirstViolation = n =>
                 response.body.error = Msg(MsgDisallowed, n.kind)

C6_Witness ==
  /\ pc = "done" /\ Rejected /\ LeadingStmtNested
  /\ DisallowedConstruct(code.tree.body[1].body[1])
  /\ response.body.error = Msg(MsgDisallowed, code.tree.body[1].body[1].kind)
  /\ ran = <<>>

ImportErrors == {MsgImport, MsgImportFrom}

\* C7 as stated: a source containing, at any depth, an import of a module
\* that is not a key of the allow-list is rejected with the
\* import-not-allowed error and is never executed.
C7_Original ==
  (EngineEnded /\ code.parses) =>
     \A n \in SubtreeNodes(code.tree) :
        ImportViolation(n) =>
           /\ Rejected
           /\ response.body.error.fmt \in ImportErrors
           /\ ran = <<>>

\* C7 (amended): a source containing, at any depth, an import of either
\* form of a module that is not a key of the allow-list is rejected by
\* validation and never executed; the error is the import-not-allowed error
\* naming a module outside the allow-list when that statement is the first
\* policy violation the breadth-first walk meets.
C7_ImportDefaultDeny ==
  (EngineEnded /\ code.parses) =>
     \A n \in SubtreeNodes(code.tree) :
        ImportViolation(n) =>
           /\ Rejected
           /\ ran = <<>>
           /\ FirstViolation = n =>
                 /\ response.body.error.fmt =
                      (IF n.kind = "Import" THEN MsgImport ELSE MsgImportFrom)
                 /\ response.body.error.arg \notin PolicyModules

C7_Witness ==
  /\ pc = "done" /\ Rejected /\ LeadingStmtNested
  /\ code.tree.body[1].body[1].kind = "Import"
  /\ response.body.error = Msg(MsgImport, "os")
  /\ ran = <<>>

\* the nodes that are neither containers nor plain statements
PolicyNodes ==
  {n \in SubtreeNodes(code.tree) : n.kind \notin {"Module", "FunctionDef", "Expr"}}
AllNamesIn(n, S) == \A i \in 1..Len(n.names) : n.names[i] \in S

NoEntrypoint ==
  lookup = "ok" /\ InSeq("HarnessExecuted", stages) /\ tests.grade /= "callable"
ProtocolViolation ==
  [type |-> "RuntimeError", msg |-> Msg(MsgProtocol, ""),
   raisedIn |-> "run_user_and_tests"]

\* C9: a harness that, once executed, publishes no grade or a grade that is
\* not callable yields the protocol-violation error as a failure response:
\* grade is not invoked, no fault escapes and no result is produced.
C9_ProtocolViolation ==
  NoEntrypoint =>
     /\ pc \in {"check_grade", "raised", "done"}
     /\ ~InSeq("grade", ran)
     /\ DOMAIN result = {}
     /\ pc \in {"raised", "done"} => exc = ProtocolViolation
     /\ pc = "done" =>
           /\ response.sent /\ response.status = 400 /\ ~response.body.ok
           /\ response.body.error = Msg(MsgProtocol, "")
           /\ DOMAIN response.body \cap ResultFields = {}

C9_Witness ==
  /\ NoEntrypoint /\ pc = "done" /\ tests.grade = "noncallable"
  /\ response.sent /\ response.body.error = Msg(MsgProtocol, "")

\* C10 as stated: when a request ends in a validation rejection or in a
\* protocol violation, neither the submission nor the harness has been
\* executed.
C10_Original ==
  (pc = "done" /\ (Rejected \/ (NoEntrypoint /\ exc = ProtocolViolation))) =>
     ran = <<>>

\* C10 (amended): when a request ends in a validation rejection, neither
\* unit has been executed; when it ends in a protocol violation, the
\* submission and the harness have both been executed, and grade has not
\* been invoked.
C10_AbortPoints ==
  /\ (pc = "done" /\ Rejected) => ran = <<>>
  /\ (pc = "done" /\ NoEntrypoint) => ran = <<"submission", "harness">>

C10_Witness ==
  /\ pc = "done" /\ NoEntrypoint /\ tests.grade = "absent"
  /\ exc = ProtocolViolation
  /\ ran = <<"submission", "harness">>

\* the request reached the engine and ended in a failure response
FailureOutcome ==
  lookup = "ok" /\ pc = "done" /\ response.sent /\ ~response.body.ok
\* the request reached the engine and ended in a success response
SuccessOutcome ==
  lookup = "ok" /\ pc = "done" /\ response.sent /\ response.body.ok

\* the step a propagating exception was raised in
Origin(e) ==
  IF e.raisedIn = "validate_source" THEN "validation"
  ELSE IF e.raisedIn \in {"<user>", "restricted_import"} THEN "submission"
  ELSE IF e.raisedIn = "<tests>" THEN "harness"
  ELSE IF e = ProtocolViolation THEN "protocol"
  ELSE IF e.raisedIn = "grade" THEN "grade"
  ELSE IF e.raisedIn = "run_user_and_tests" THEN "normalize"
  ELSE IF e.raisedIn = "capture_execution_results" THEN "capture"
  ELSE "other"

\* the number of stages completed, and of units started, when a failure of
\* the given origin short-circuits the request
StagesAt == [validation |-> 1, submission |-> 2, harness |-> 3, protocol |-> 4,
             grade |-> 4, normalize |-> 5, capture |-> 5]
UnitsAt == [validation |-> 0, submission |-> 1, harness |-> 2, protocol |-> 2,
            grade |-> 3, normalize |-> 3, capture |-> 3]
ShortCircuited(origin) ==
  /\ stages = SubSeq(AllStages, 1, StagesAt[origin])
  /\ ran = SubSeq(AllUnits, 1, UnitsAt[origin])
  /\ DOMAIN result = {}

\* C11 as stated: every failure outcome is a validation rejection, a fault
\* of the submission or harness execution, or a protocol violation; the
\* invocation of grade, the normalization and the capture produce none.
C11_Original ==
  FailureOutcome =>
     /\ Origin(exc) \in {"validation", "submission", "harness", "protocol"}
     /\ ShortCircuited(Origin(exc))

\* C11 (amended): every failure outcome arises from exactly one of a
\* validation rejection, a fault of the submission execution, a fault of
\* the harness execution, a protocol violation, a fault raised by the grade
\* entrypoint, a fault of the normalization of its return value, or a fault
\* of the capture; each short-circuits all later stages.
C11_FailureOrigins ==
  FailureOutcome =>
     /\ Origin(exc) \in DOMAIN StagesAt
     /\ ShortCircuited(Origin(exc))

C11_Witness ==
  /\ FailureOutcome /\ Origin(exc) = "normalize"
  /\ stages = SubSeq(AllStages, 1, 5) /\ ran = AllUnits

\* C12: the result of a successful request satisfies 0 <= score <= max_score.
C12_ScoreInRange ==
  SuccessOutcome =>
     /\ 0 <= response.body.score
     /\ response.body.score <= response.body.max_score

\* the integer a number is truncated to; numbers are given in tenths
TruncatedTenths(v) ==
  CHOOSE k \in -1000..1000 :
     \/ v >= 0 /\ 10 * k <= v /\ v < 10 * (k + 1)
     \/ v < 0 /\ 10 * (k - 1) < v /\ v <= 10 * k
\* the integer the specification reports for a score or max_score field
ReportedInt(val, default) ==
  IF val.t = "absent" THEN default
  ELSE IF val.t = "float" THEN TruncatedTenths(val.v)
  ELSE val.v

\* C13: a successful request reports the record's score truncated to an
\* integer, or 0 when absent; the record's max_score as an integer, or 100
\* when absent; the record's feedback as a string, or "" when absent.
C13_Normalization ==
  SuccessOutcome =>
     /\ response.body.score = ReportedInt(tests.returns.score, 0)
     /\ response.body.max_score = ReportedInt(tests.returns.max_score, 100)
     /\ response.body.feedback =
          (IF tests.returns.feedback.t = "absent" THEN "" ELSE "str(feedback)")

C13_Witness ==
  /\ SuccessOutcome
  /\ tests.returns.score = FloatVal(0 - 25) /\ response.body.score = 0 - 2
  /\ tests.returns.max_score = FloatVal(105) /\ response.body.max_score = 10
  /\ response.body.feedback = ""

\* the artifact a success response carries
Artifact == response.body.execution_results
\* names the capture skips: those beginning with two underscores
ReservedNames == {"__builtins__", "__source__", "__name__", "__secret"}
\* attribute names beginning with an underscore
PrivateAttrNames == {"__init__", "_helper"}
\* the scope has a class one of whose public attributes fails when read
ClassAttrFails ==
  \E n \in DOMAIN user_ns \ ReservedNames :
     /\ user_ns[n].isType
     /\ \E i \in 1..Len(user_ns[n].attrs) :
           /\ user_ns[n].attrs[i].raises
           /\ user_ns[n].attrs[i].name \notin PrivateAttrNames
\* the request got as far as the capture and has ended
CaptureReached == lookup = "ok" /\ pc = "done" /\ locals /= NoLocals

\* C16: capture never aborts and never affects the grading result: once the
\* return value of grade is normalized, the request succeeds with an
\* artifact and with the score, max_score and feedback obtained from grade.
C16_CaptureNeverAborts ==
  CaptureReached =>
     /\ SuccessOutcome
     /\ "execution_results" \in DOMAIN response.body
     /\ response.body.score = locals.score
     /\ response.body.max_score = locals.max_score
     /\ response.body.feedback = locals.feedback

\* C17: a variable whose string form cannot be produced is recorded with
\* its type name and the value "<unable to serialize>", every other binding
\* is captured as usual, and the request still succeeds.
C17_SerializationFallback ==
  (/\ CaptureReached
   /\ ~ClassAttrFails
   /\ \E n \in DOMAIN user_ns \ ReservedNames :
         ~user_ns[n].callable /\ user_ns[n].strRaises)
  => /\ SuccessOutcome
     /\ DOMAIN Artifact.functions \cup DOMAIN Artifact.classes
          \cup DOMAIN Artifact.variables = DOMAIN user_ns \ ReservedNames
     /\ \A n \in DOMAIN Artifact.variables :
          /\ Artifact.variables[n].type = user_ns[n].typeName
          /\ (Artifact.variables[n].value.text = "<unable to serialize>")
               <=> user_ns[n].strRaises

C17_Witness ==
  /\ SuccessOutcome
  /\ {"s", "u"} \subseteq DOMAIN user_ns
  /\ user_ns["u"].strRaises
  /\ Artifact.variables["u"] =
       [name |-> "u", type |-> "Weird",
        value |-> [text |-> "<unable to serialize>", len |-> 21, cut |-> FALSE]]
  /\ Artifact.variables["s"].value.text /= "<unable to serialize>"

\* C18: capture classifies every binding exactly once: reserved names
\* appear in no record set, every other name appears in exactly one of
\* functions (callable, not a type), classes (a type) and variables (the
\* rest); x = 42 is recorded with type int and value "42".
C18_Classification ==
  SuccessOutcome =>
     LET names == DOMAIN user_ns \ ReservedNames
     IN  /\ DOMAIN Artifact.functions =
              {n \in names : user_ns[n].callable /\ ~user_ns[n].isType}
         /\ DOMAIN Artifact.classes = {n \in names : user_ns[n].isType}
         /\ DOMAIN Artifact.variables =
              {n \in names : ~user_ns[n].callable /\ ~user_ns[n].isType}
         /\ DOMAIN Artifact.functions \cap DOMAIN Artifact.classes = {}
         /\ DOMAIN Artifact.functions \cap DOMAIN Artifact.variables = {}
         /\ DOMAIN Artifact.classes \cap DOMAIN Artifact.variables = {}
         /\ ("x" \in names /\ user_ns["x"] = IntObj) =>
              /\ Artifact.variables["x"].type = "int"
              /\ Artifact.variables["x"].value =
                   [text |-> "str(obj)", len |-> 2, cut |-> FALSE]

C18_Witness ==
  /\ SuccessOutcome
  /\ DOMAIN Artifact.functions = {"f"}
  /\ DOMAIN Artifact.classes = {"C"}
  /\ DOMAIN Artifact.variables = {"x"}
  /\ ReservedNames \cap DOMAIN user_ns /= {}

\* C19: a captured value is the full string form when that has at most 100
\* characters, is cut and ends in "..." only when the string form is longer
\* than 100 characters, and never has more than 100 characters.
C19_Truncation ==
  SuccessOutcome =>
     \A n \in DOMAIN Artifact.variables :
        LET obj == user_ns[n]
            value == Artifact.variables[n].value
        IN  ~obj.strRaises =>
              /\ obj.strLen <= 100 => (~value.cut /\ value.len = obj.strLen)
              /\ value.cut => obj.strLen > 100
              /\ value.len <= 100

\* the elements of a sequence
Range(seq) == {seq[i] : i \in 1..Len(seq)}

\* C20: the methods of a class record are exactly the attribute names of
\* the class, own and inherited, that do not start with an underscore and
\* whose value is callable, classmethods and staticmethods included.
C20_PublicCallables ==
  SuccessOutcome =>
     \A n \in DOMAIN Artifact.classes :
        LET methods == Artifact.classes[n].methods
        IN  /\ Range(methods) =
                 {a.name : a \in {b \in Range(user_ns[n].attrs) :
                                    b.callable /\ b.name \notin PrivateAttrNames}}
            /\ Cardinality(Range(methods)) = Len(methods)

C20_Witness ==
  /\ SuccessOutcome
  /\ "C" \in DOMAIN Artifact.classes
  /\ Artifact.classes["C"].methods = <<"build", "inh", "m", "util">>
  /\ \E i \in 1..Len(user_ns["C"].attrs) :
        user_ns["C"].attrs[i] = Attr("limit", FALSE, FALSE)

\* C14: no mutable state outlives a grading invocation: a later request
\* finds the disallowed-construct set, the import allow-list and
\* SAFE_BUILTINS as they were when the module was loaded, and its scopes
\* are built anew from them.
C14_NoStateOutlives ==
  served > 1 =>
     /\ module_globals = ModuleGlobals
     /\ pc = "received" => (user_ns = NoScope /\ test_ns = NoScope)
     /\ user_ns /= NoScope =>
          user_ns["__builtins__"].base = SAFE_BUILTINS
     /\ test_ns /= NoScope =>
          test_ns["__builtins__"].base = SAFE_BUILTINS

\* C15: a request handled in parallel with another one ends as it would
\* have ended alone: a source that violates the validation policy is
\* rejected, and the scopes of an accepted one hold the base capabilities.
C15_NoInterference ==
  EngineEnded =>
     /\ SourceViolatesPolicy => Rejected
     /\ user_ns /= NoScope =>
          user_ns["__builtins__"].base = SAFE_BUILTINS

\* the error kinds of the taxonomy
ErrorKinds == {"syntax_error", "disallowed_feature", "import_not_allowed",
               "symbol_not_allowed", "runtime_fault", "protocol_violation"}
\* the kind the taxonomy gives a failure of the given exception
KindOf(e) ==
  IF Origin(e) = "validation"
    THEN (IF e.msg.fmt = MsgSyntax THEN "syntax_error"
          ELSE IF e.msg.fmt = MsgDisallowed THEN "disallowed_feature"
          ELSE IF e.msg.fmt = MsgSymbol THEN "symbol_not_allowed"
          ELSE "import_not_allowed")
  ELSE IF Origin(e) = "protocol" THEN "protocol_violation"
  ELSE "runtime_fault"

\* C21: every failure outcome is a typed error: it carries an error kind of
\* the taxonomy, the kind of the step that failed, together with a message.
C21_TypedError ==
  FailureOutcome =>
     /\ "error" \in DOMAIN response.body
     /\ "error_kind" \in DOMAIN response.body
     /\ response.body.error_kind \in ErrorKinds
     /\ response.body.error_kind = KindOf(exc)

\* C22: each of the two scopes built for a request holds its own source
\* text and an identity tag: the submission scope the submission source,
\* the harness scope the harness source.
C22_ScopesHoldSource ==
  (lookup = "ok" /\ pc = "exec_user") =>
     /\ {"__source__", "__name__"} \subseteq DOMAIN user_ns
     /\ user_ns["__source__"] = code
     /\ {"__source__", "__name__"} \subseteq DOMAIN test_ns
     /\ test_ns["__source__"] = tests

\* a step of the handler that runs validate_source
ValidateStep == pc = "validate" /\ pc' /= "validate"
\* equal (source, policy) pairs were given equal verdicts
SameVerdicts(history) ==
  \A i, j \in 1..Len(history) :
     (history[i].source = history[j].source
        /\ history[i].policy = history[j].policy)
     => history[i].verdict = history[j].verdict

\* C23: validation is pure and idempotent: a validation changes nothing
\* but the position of the handler (and the exception it raises), and all
\* validations of the same (source, policy) pair, in whatever request of
\* the process, give the same verdict.
C23_ValidationPure ==
  [][ValidateStep =>
       /\ UNCHANGED <<module_globals, code, lookup, tests, viz, user_ns,
                      test_ns, graded, locals, result, response, ran, loads,
                      served, peer>>
       /\ (exc' = NoExc) <=> (validate_source(code) = NoMsg)
       /\ SameVerdicts(validated')]_vars

C23_Witness ==
  /\ Len(validated) >= 2
  /\ validated[1].source = validated[2].source
  /\ validated[1].policy = validated[2].policy
  /\ validated[1].verdict = validated[2].verdict
  /\ validated[2].verdict /= NoMsg
  /\ pc = "done"

\* traceback lines that name a file of the server and a position in it
InternalFrameLines ==
  {"File app.py, line 268, in grade_submission",
   "File app.py, line 291, in grade_submission",
   "File app.py, in run_user_and_tests",
   "File app.py, in validate_source",
   "File app.py, in restricted_import",
   "File app.py, in capture_execution_results"}

\* C24: a validation failure and a protocol violation get a client-error
\* response, and the trace of a failure response holds at most the last
\* three lines of the traceback, never all of it and never a line that
\* names an internal file.
C24_TraceDiscipline ==
  FailureOutcome =>
     /\ Origin(exc) \in {"validation", "protocol"} => response.status = 400
     /\ "trace" \in DOMAIN response.body =>
          /\ Len(response.body.trace) <= 3
          /\ response.body.trace /= Traceback(exc)
          /\ \A i \in 1..Len(response.body.trace) :
                response.body.trace[i] \notin InternalFrameLines

\* C25: the artifact of a successful request carries the submitted source
\* text itself, whatever the submission and the harness did to the scope.
C25_SourceVerbatim ==
  SuccessOutcome => Artifact.user_code = code

C25_Witness ==
  /\ SuccessOutcome
  /\ Artifact.user_code = code
  /\ user_ns["__source__"] /= code

\* C27: the artifact describes exactly the bindings the execution of the
\* submission produced: what grade adds to, deletes from or rebinds in the
\* scope it is called with does not show in the artifact.
C27_SubmissionBindingsOnly ==
  SuccessOutcome =>
     LET made == code.run.binds
         names == DOMAIN made \ ReservedNames
     IN  /\ DOMAIN Artifact.functions \cup DOMAIN Artifact.classes
              \cup DOMAIN Artifact.variables = names
         /\ \A n \in DOMAIN Artifact.variables \cap names :
               Artifact.variables[n].type = made[n].typeName

\* the handler has returned a response or let an exception out
Ended == pc \in {"done", "crashed"}
\* the submission of the request is executed and does not end
SubmissionDiverges ==
  /\ lookup = "ok" /\ ~SourceViolatesPolicy
  /\ code.run.dynamic = <<>> /\ code.run.fault = NoFault
  /\ ~code.run.halts
\* the submission, the harness and grade each end
UnitsHalt == code.run.halts /\ tests.halts /\ tests.gradeHalts

C28_SymbolRestrictionEverywhere ==
  (EngineEnded /\ code.run.dynamic = <<>>) =>
     \A i \in 1..Len(loads) :
        loads[i].name \in DOMAIN PolicySymbols =>
           /\ loads[i].fromlist /= <<>>
           /\ \A j \in 1..Len(loads[i].fromlist) :
                 loads[i].fromlist[j] \in PolicySymbols[loads[i].name]

\* C29: the "Module not found" response is given only when the catalog
\* file of the module is missing; a fault of the submission, the harness or
\* grade is reported as an execution error with its message and trace.
C29_NotFoundOnlyForCatalog ==
  (pc = "done" /\ response.sent) =>
     /\ (response.status = 404 /\ response.body.error = Msg("Module not found", ""))
          => lookup = "module_not_found"
     /\ (exc /= NoExc /\ Origin(exc) \in {"submission", "harness", "grade"})
          => /\ response.status = 400
             /\ response.body.error = exc.msg
             /\ "trace" \in DOMAIN response.body

\* C30: validator and loader agree: once the submission has been executed
\* up to its first failing statement, every load its import statements
\* ask for has been granted, and a refusal of the loader concerns a call of
\* __import__ only.
C30_LoaderGrantsValidated ==
  (lookup = "ok" /\ InSeq("submission", ran)) =>
     LET static == StaticLoads(code.tree.body)
     IN  /\ IsPrefix(static, loads)
         /\ exc.raisedIn = "restricted_import" =>
               /\ Len(loads) < Len(static) + Len(code.run.dynamic)
               /\ code.run.dynamic[Len(loads) - Len(static) + 1].name = exc.msg.arg

C30_Witness ==
  /\ SuccessOutcome
  /\ loads = StaticLoads(code.tree.body)
  /\ \E i \in 1..Len(loads) : loads[i] = LoadRequest("functools", <<>>)

====
